---- MODULE Spec2Model ----
(***************************************************************************)
(* hazformat: a Streamlit form that merges shipment data with reference    *)
(* data kept in a Google spreadsheet and fills a Word or Excel template.   *)
(*                                                                         *)
(* Texts are sequences of one-character strings, so that substring search  *)
(* and replacement are computed character by character as Python does.     *)
(***************************************************************************)
EXTENDS Integers, Sequences, FiniteSets, TLC

VARIABLES
    fwb,        \* fill engine: the workbook loaded from the template (cells)
    fdata,      \* fill engine: the FieldMap, in dict iteration order
    fout,       \* fill engine: result of fill_excel_template, or not yet run
    sheets,     \* the master spreadsheet: the rows of its sheets
    clock,      \* time.time(), in seconds since the start
    cache,      \* the st.cache_data entry of load_master_data_from_drive
    tcache,     \* the st.cache_resource entry of load_templates_from_drive
    files,      \* the temporary files on disk, in order of creation
    session,    \* st.session_state: cache_buster and the show_..._form flags
    out,        \* what the last run of main() left on the page
    call        \* a call of a helper function: its arguments and its result

fvars == <<fwb, fdata, fout>>
avars == <<sheets, clock, cache, tcache, files, session, out>>
pvars == <<call>>
vars == <<fwb, fdata, fout, sheets, clock, cache, tcache, files, session, out, call>>

(***************************************************************************)
(* Bounds of the model                                                     *)
(***************************************************************************)
MaxPieces == 3      \* a cell text is made of at most this many pieces
MaxFields == 2      \* a FieldMap of the fill engine has at most this many keys

(***************************************************************************)
(* Texts                                                                   *)
(***************************************************************************)
LB == <<"{", "{">>
RB == <<"}", "}">>
QTY == <<"Q", "T", "Y">>
QTY_EQUIPMENT == <<"Q", "T", "Y", "_", "E", "Q", "U", "I", "P", "M", "E", "N", "T">>
SHIPPER_ADDRESS == <<"S", "H", "I", "P", "P", "E", "R", "_", "A", "D", "D", "R", "E", "S", "S">>
CONSIGNEE_ADDRESS == <<"C", "O", "N", "S", "I", "G", "N", "E", "E", "_", "A", "D", "D", "R", "E", "S", "S">>
BL_NO == <<"B", "L", "_", "N", "O">>
NoneText == <<"N", "o", "n", "e">>

\* the complete token of a key as a template author writes it: {{KEY}}
Token(key) == <<"{", "{">> \o key \o <<"}", "}">>

Digit(d) == CASE d = 0 -> "0" [] d = 1 -> "1" [] d = 2 -> "2" [] d = 3 -> "3"
              [] d = 4 -> "4" [] d = 5 -> "5" [] d = 6 -> "6" [] d = 7 -> "7"
              [] d = 8 -> "8" [] d = 9 -> "9"

RECURSIVE IntToText(_)
\* str(n) of a non-negative int: its decimal digits
IntToText(n) == IF n < 10 THEN <<Digit(n)>> ELSE IntToText(n \div 10) \o <<Digit(n % 10)>>

\* a Python value: a str (text), an int (num) or None
StrVal(t) == [kind |-> "s", text |-> t, num |-> 0]
IntVal(n) == [kind |-> "n", text |-> <<>>, num |-> n]
NoneVal == [kind |-> "none", text |-> <<>>, num |-> 0]

\* str(val)
Str(v) == CASE v.kind = "s" -> v.text
            [] v.kind = "n" -> IntToText(v.num)
            [] OTHER -> NoneText

\* old occurs in s at position i
MatchAt(s, old, i) ==
    /\ i + Len(old) - 1 <= Len(s)
    /\ \A j \in 1..Len(old) : s[i + j - 1] = old[j]

\* Python: old in s
Contains(s, old) == \E i \in 1..(Len(s) + 1) : MatchAt(s, old, i)

RECURSIVE ReplaceFrom(_, _, _, _)
ReplaceFrom(s, old, new, i) ==
    IF i > Len(s) THEN <<>>
    ELSE IF MatchAt(s, old, i) THEN new \o ReplaceFrom(s, old, new, i + Len(old))
    ELSE <<s[i]>> \o ReplaceFrom(s, old, new, i + 1)

\* Python: s.replace(old, new) for a non-empty old: every non-overlapping
\* occurrence, scanning left to right
Replace(s, old, new) == ReplaceFrom(s, old, new, 1)

(***************************************************************************)
(* Spreadsheet fill                                                        *)
(***************************************************************************)
\* openpyxl Alignment: the attributes the fill can change
DefaultAlignment == [wrap_text |-> FALSE, horizontal |-> "general"]
\* Alignment(wrap_text=True)
WrapAlignment == [wrap_text |-> TRUE, horizontal |-> "general"]

\* a cell: a value (str, number, bool, date or None) and its alignment
StrCell(t, a) == [kind |-> "s", text |-> t, num |-> 0, alignment |-> a]
OtherCell(k, n, a) == [kind |-> k, text |-> <<>>, num |-> n, alignment |-> a]

\* a placeholder cut short: the key's opening braces and name only
PlaceholderOpen(key) == LB \o key

\* placeholder = "{{" + key + "}}"
Placeholder(key) == LB \o key \o RB

AddressKeys == {SHIPPER_ADDRESS, CONSIGNEE_ADDRESS}

\* if cell.value and isinstance(cell.value, str)
IsScanned(cell) == cell.kind = "s" /\ cell.text # <<>>

\* an iteration that sets wrap-text for every substituted key
FillStepAlwaysWrap(c, f) ==
    IF ~Contains(c.cell.text, Placeholder(f.key)) THEN c
    ELSE IF f.key \in AddressKeys /\ f.val.kind # "s" THEN [c EXCEPT !.raised = TRUE]
    ELSE [c EXCEPT !.cell.text = Replace(c.cell.text, Placeholder(f.key), Str(f.val)),
                   !.cell.alignment = WrapAlignment]

\* one iteration of "for key, val in data.items()" on one cell; raised when
\* val.replace is called on a value that is no str
FillStep(c, f) ==
    IF ~Contains(c.cell.text, Placeholder(f.key)) THEN c
    ELSE IF f.key \in AddressKeys
    THEN IF f.val.kind # "s" THEN [c EXCEPT !.raised = TRUE]
         ELSE [c EXCEPT !.cell.text = Replace(c.cell.text, Placeholder(f.key),
                                              Replace(f.val.text, <<"\n">>, <<"\n">>)),
                        !.cell.alignment = WrapAlignment]
    ELSE [c EXCEPT !.cell.text = Replace(c.cell.text, Placeholder(f.key), Str(f.val))]

RECURSIVE FillLoop(_, _, _)
FillLoop(c, data, i) ==
    IF i > Len(data) \/ c.raised THEN c
    ELSE FillLoop(FillStep(c, data[i]), data, i + 1)

\* a cell body that blanks the placeholder of a known template key that the
\* FieldMap lacks, as a templating engine with defaults would
FillCellBlanking(cell, data) ==
    LET blank == << [key |-> BL_NO, val |-> StrVal(<<>>)] >>
    IN  IF IsScanned(cell)
        THEN FillLoop([cell |-> cell, raised |-> FALSE], data \o blank, 1)
        ELSE [cell |-> cell, raised |-> FALSE]

\* a cell body that scans str(cell.value) of every cell that has a value
FillCellCoercing(cell, data) ==
    IF cell.kind = "none" THEN [cell |-> cell, raised |-> FALSE]
    ELSE FillLoop([cell |-> [cell EXCEPT !.kind = "s",
                                         !.text = IF cell.kind = "s" THEN cell.text
                                                  ELSE IntToText(cell.num),
                                         !.num = 0],
                   raised |-> FALSE], data, 1)

\* the body of "for cell in row"
FillCell(cell, data) ==
    IF IsScanned(cell) THEN FillLoop([cell |-> cell, raised |-> FALSE], data, 1)
    ELSE [cell |-> cell, raised |-> FALSE]

\* the loops of fill_excel_template over the loaded workbook: the filled
\* workbook, or raised when a cell's substitution raised
FillWorkbook(wb, data) ==
    LET r == [i \in 1..Len(wb) |-> FillCell(wb[i], data)]
    IN  IF \E i \in 1..Len(wb) : r[i].raised
        THEN [status |-> "raised", wb |-> <<>>]
        ELSE [status |-> "ok", wb |-> [i \in 1..Len(wb) |-> r[i].cell]]

(***************************************************************************)
(* The fill engine on its own: every workbook and FieldMap of the bounded  *)
(* input sets, filled once.                                                *)
(***************************************************************************)
RECURSIVE Concat(_)
Concat(ps) == IF ps = <<>> THEN <<>> ELSE Head(ps) \o Concat(Tail(ps))

Pieces == { <<"Q", "t", "y", ":", " ">>,
            Token(QTY), Token(QTY_EQUIPMENT),
            Token(SHIPPER_ADDRESS), Token(BL_NO),
            LB }

CellTexts == { Concat(ps) : ps \in UNION { [1..n -> Pieces] : n \in 1..MaxPieces } }

CenterAlignment == [wrap_text |-> FALSE, horizontal |-> "center"]
Alignments == { DefaultAlignment, CenterAlignment }

StrCells == { StrCell(t, CenterAlignment) : t \in CellTexts }

OtherCells == { OtherCell(k, 1, a) : k \in {"n", "b", "d"}, a \in Alignments }
                 \cup { OtherCell("none", 0, a) : a \in Alignments }
                 \cup { StrCell(<<>>, a) : a \in Alignments }

\* the values a key of the bounded FieldMaps may have
FieldValues(key) ==
    CASE key = QTY -> { StrVal(<<"1">>) }
      [] key = QTY_EQUIPMENT -> { StrVal(<<"1", "x", "2", "0", "F", "T">>),
                                  StrVal(Token(QTY)) }
      [] key = SHIPPER_ADDRESS -> { StrVal(<<"A", "\n", "B">>) }

FillKeys == { QTY, QTY_EQUIPMENT, SHIPPER_ADDRESS }

Fields == { [key |-> k, val |-> v] : k \in FillKeys, v \in UNION { FieldValues(kk) : kk \in FillKeys } }

\* dicts: no key twice, in every iteration order
FieldMaps ==
    { d \in UNION { [1..n -> Fields] : n \in 0..MaxFields } :
        /\ \A i \in 1..Len(d) : d[i].val \in FieldValues(d[i].key)
        /\ \A i, j \in 1..Len(d) : i # j => d[i].key # d[j].key }

NotRun == [status |-> "none", wb |-> <<>>]

\* no session of the form is open while the fill engine runs on its own
NoSession ==
    /\ sheets = <<>> /\ clock = 0 /\ cache = <<>> /\ tcache = <<>>
    /\ files = <<>> /\ session = <<>> /\ out = <<>>

\* no helper function is being called
NoCall == [step |-> "idle", arg |-> <<>>, width |-> 0, ret |-> <<>>, again |-> <<>>]

FillInit ==
    /\ NoSession
    /\ call = NoCall
    /\ fwb \in { <<c>> : c \in StrCells } \cup { <<c, d>> : c \in OtherCells, d \in OtherCells }
    /\ fdata \in FieldMaps
    /\ fout = NotRun

\* fill_excel_template(template_path, data) up to wb.save
fill_excel_template ==
    /\ fout.status = "none"
    /\ fout' = FillWorkbook(fwb, fdata)
    /\ UNCHANGED <<fwb, fdata>>
    /\ UNCHANGED avars
    /\ UNCHANGED pvars

FillNext == fill_excel_template

FillSpec == FillInit /\ [][FillNext]_vars

(***************************************************************************)
(* Properties of the spreadsheet fill                                      *)
(***************************************************************************)
IsBrace(ch) == ch = "{" \/ ch = "}"
BraceFree(t) == \A i \in 1..Len(t) : ~IsBrace(t[i])

RECURSIVE WellFormedFrom(_, _)
\* from position i on, t is literal text without braces and complete
\* {{KEY}} tokens whose KEY has no brace
WellFormedFrom(t, i) ==
    IF i > Len(t) THEN TRUE
    ELSE IF ~IsBrace(t[i]) THEN WellFormedFrom(t, i + 1)
    ELSE /\ MatchAt(t, LB, i)
         /\ \E j \in (i + 2)..(Len(t) - 1) :
               /\ \A k \in (i + 2)..(j - 1) : ~IsBrace(t[k])
               /\ MatchAt(t, RB, j)
               /\ WellFormedFrom(t, j + 2)

WellFormed(t) == WellFormedFrom(t, 1)

RECURSIVE TokenFillFrom(_, _, _)
\* the text read once from left to right: a complete token of a FieldMap key
\* becomes the key's value, everything else is copied
TokenFillFrom(t, data, i) ==
    IF i > Len(t) THEN <<>>
    ELSE IF \E n \in 1..Len(data) : MatchAt(t, Token(data[n].key), i)
    THEN LET n == CHOOSE n \in 1..Len(data) : MatchAt(t, Token(data[n].key), i)
         IN  Str(data[n].val) \o TokenFillFrom(t, data, i + Len(Token(data[n].key)))
    ELSE <<t[i]>> \o TokenFillFrom(t, data, i + 1)

TokenFill(t, data) == TokenFillFrom(t, data, 1)

ValuesBraceFree(data) == \A n \in 1..Len(data) : BraceFree(Str(data[n].val))
HasKey(data, key) == \E n \in 1..Len(data) : data[n].key = key
Occurrences(t, p) == Cardinality({ i \in 1..Len(t) : MatchAt(t, p, i) })

ExampleCell == <<"Q", "t", "y", ":", " ">> \o Token(QTY_EQUIPMENT)
ExampleData == << [key |-> QTY, val |-> StrVal(<<"1">>)],
                  [key |-> QTY_EQUIPMENT, val |-> StrVal(<<"1", "x", "2", "0", "F", "T">>)] >>

\* C1: in a cell made of literal text and complete {{KEY}} tokens, filled with
\* values that hold no brace, each token of a FieldMap key is replaced by that
\* key's value and nothing else changes, whatever the order of the fields: the
\* token of a key that is a prefix of another key (QTY, QTY_EQUIPMENT) never
\* matches inside the longer key's token.
C1_FullTokenOnly ==
    fout.status = "ok" =>
        \A i \in 1..Len(fwb) :
            (fwb[i].kind = "s" /\ WellFormed(fwb[i].text) /\ ValuesBraceFree(fdata))
                => fout.wb[i].text = TokenFill(fwb[i].text, fdata)

\* the example of the specification, with the shorter key iterated first
C1_Witness ==
    /\ fwb[1].kind = "s" /\ fwb[1].text = ExampleCell
    /\ fdata = ExampleData
    /\ fout.status = "ok"
    /\ fout.wb[1].text = <<"Q", "t", "y", ":", " ", "1", "x", "2", "0", "F", "T">>

\* C2: a placeholder whose key is not in the FieldMap stays in the cell as the
\* same literal text (each of its occurrences is still there after the fill),
\* and a cell that holds no placeholder of a FieldMap key is not changed at all.
C2_UnknownLeftLiteral ==
    fout.status = "ok" =>
        \A i \in 1..Len(fwb) :
            fwb[i].kind = "s" =>
                /\ \A key \in FillKeys \cup {BL_NO, CONSIGNEE_ADDRESS} :
                       ~HasKey(fdata, key) =>
                           Occurrences(fout.wb[i].text, Token(key))
                               >= Occurrences(fwb[i].text, Token(key))
                /\ (\A n \in 1..Len(fdata) :
                        ~Contains(fwb[i].text, Token(fdata[n].key)))
                       => fout.wb[i] = fwb[i]

C2_Witness ==
    /\ fout.status = "ok"
    /\ fwb[1].kind = "s"
    /\ fwb[1].text = Token(BL_NO) \o Token(QTY)
    /\ HasKey(fdata, QTY)
    /\ fout.wb[1].text = Token(BL_NO) \o <<"1">>

\* C3: a cell whose value is not a non-empty string (a number, a date, a
\* boolean, an empty cell) has the same value and the same alignment after
\* the fill as before, and such cells never make the fill fail.
C3_NonStringUntouched ==
    /\ fout.status = "ok" =>
           \A i \in 1..Len(fwb) :
               (fwb[i].kind # "s" \/ fwb[i].text = <<>>) => fout.wb[i] = fwb[i]
    /\ (fout.status # "none" /\ \A i \in 1..Len(fwb) : fwb[i].kind # "s")
           => fout.status = "ok"

C3_Witness ==
    /\ fout.status = "ok"
    /\ Len(fwb) = 2 /\ fwb[1].kind = "n" /\ fwb[2].kind = "d"
    /\ Len(fdata) = MaxFields
    /\ fout.wb = fwb

AddressSubstituted(t, data) ==
    \E n \in 1..Len(data) :
        data[n].key \in AddressKeys /\ Contains(t, Token(data[n].key))

\* C4: the fill sets wrap-text on a cell when the cell holds the placeholder
\* of an address key of the FieldMap, and on no other cell: a cell where only
\* other placeholders (or none) are substituted keeps its alignment.
C4_WrapOnlyForAddress ==
    fout.status = "ok" =>
        \A i \in 1..Len(fwb) :
            fwb[i].kind = "s" =>
                /\ AddressSubstituted(fwb[i].text, fdata) => fout.wb[i].alignment.wrap_text
                /\ (~\E n \in 1..Len(fdata) : fdata[n].key \in AddressKeys)
                       => fout.wb[i].alignment = fwb[i].alignment
                /\ (WellFormed(fwb[i].text) /\ ValuesBraceFree(fdata)
                        /\ ~AddressSubstituted(fwb[i].text, fdata))
                       => fout.wb[i].alignment = fwb[i].alignment
                /\ fout.wb[i].alignment \in {fwb[i].alignment, WrapAlignment}

C4_Witness ==
    /\ fout.status = "ok"
    /\ fwb[1].kind = "s"
    /\ fwb[1].text = Token(QTY) \o Token(SHIPPER_ADDRESS)
    /\ HasKey(fdata, QTY) /\ HasKey(fdata, SHIPPER_ADDRESS)
    /\ ~fwb[1].alignment.wrap_text
    /\ fout.wb[1].alignment.wrap_text
    /\ fout.wb[1].text = <<"1", "A", "\n", "B">>

(***************************************************************************)
(* The application: texts                                                  *)
(***************************************************************************)
SHIPPER == <<"S", "H", "I", "P", "P", "E", "R">>
SHIPPER_CONTACT_NAME == <<"S", "H", "I", "P", "P", "E", "R", "_", "C", "O", "N", "T", "A", "C", "T", "_", "N", "A", "M", "E">>
SHIPPER_CONTACT_NUMBER == <<"S", "H", "I", "P", "P", "E", "R", "_", "C", "O", "N", "T", "A", "C", "T", "_", "N", "U", "M", "B", "E", "R">>
CONSIGNEE == <<"C", "O", "N", "S", "I", "G", "N", "E", "E">>
POL == <<"P", "O", "L">>
POD == <<"P", "O", "D">>
VESSEL == <<"V", "E", "S", "S", "E", "L">>
CARGO == <<"C", "A", "R", "G", "O">>
TECHNICAL_NAME == <<"T", "E", "C", "H", "N", "I", "C", "A", "L", "_", "N", "A", "M", "E">>
CLASS == <<"C", "L", "A", "S", "S">>
UNNO == <<"U", "N", "N", "O">>
SUBRISK == <<"S", "U", "B", "R", "I", "S", "K">>
PACKING_GROUP == <<"P", "A", "C", "K", "I", "N", "G", "_", "G", "R", "O", "U", "P">>
EMS == <<"E", "M", "S">>
FLASH_POINT == <<"F", "L", "A", "S", "H", "_", "P", "O", "I", "N", "T">>
MARINE_POLLUTANT == <<"M", "A", "R", "I", "N", "E", "_", "P", "O", "L", "L", "U", "T", "A", "N", "T">>
LIMITED_QUANTITY == <<"L", "I", "M", "I", "T", "E", "D", "_", "Q", "U", "A", "N", "T", "I", "T", "Y">>
NATURE_OF_CARGO == <<"N", "A", "T", "U", "R", "E", "_", "O", "F", "_", "C", "A", "R", "G", "O">>
MFAG_NUMBER == <<"M", "F", "A", "G", "_", "N", "U", "M", "B", "E", "R">>
OUTER_PACKAGE == <<"O", "U", "T", "E", "R", "_", "P", "A", "C", "K", "A", "G", "E">>
INNER_PACKAGE == <<"I", "N", "N", "E", "R", "_", "P", "A", "C", "K", "A", "G", "E">>
GROSS_WT == <<"G", "R", "O", "S", "S", "_", "W", "T">>
NET_WT == <<"N", "E", "T", "_", "W", "T">>
EQUIPMENT_TYPE == <<"E", "Q", "U", "I", "P", "M", "E", "N", "T", "_", "T", "Y", "P", "E">>
QUANTITY == <<"Q", "U", "A", "N", "T", "I", "T", "Y">>
CONTAINER_NUMBER == <<"C", "O", "N", "T", "A", "I", "N", "E", "R", "_", "N", "U", "M", "B", "E", "R">>
SEAL_NUMBER == <<"S", "E", "A", "L", "_", "N", "U", "M", "B", "E", "R">>

\* key_map of convert_keys_to_template_style, in dict order
\* a rename table in which a target is itself a source key
key_map_chained == <<
    [k |-> <<"u", "n", "n", "o">>, v |-> <<"c", "l", "a", "s", "s">>],
    [k |-> <<"c", "l", "a", "s", "s">>, v |-> CLASS] >>

key_map == <<
    [k |-> <<"t", "e", "c", "h", "n", "i", "c", "a", "l", "N", "a", "m", "e">>, v |-> TECHNICAL_NAME],
    [k |-> <<"c", "l", "a", "s", "s">>, v |-> CLASS],
    [k |-> <<"u", "n", "n", "o">>, v |-> UNNO],
    [k |-> <<"s", "u", "b", "r", "i", "s", "k">>, v |-> SUBRISK],
    [k |-> <<"p", "a", "c", "k", "i", "n", "g", "G", "r", "o", "u", "p">>, v |-> PACKING_GROUP],
    [k |-> <<"e", "m", "s">>, v |-> EMS],
    [k |-> <<"f", "l", "a", "s", "h", "P", "o", "i", "n", "t">>, v |-> FLASH_POINT],
    [k |-> <<"m", "a", "r", "i", "n", "e", "P", "o", "l", "l", "u", "t", "a", "n", "t">>, v |-> MARINE_POLLUTANT],
    [k |-> <<"L", "i", "m", "i", "t", "e", "d", " ", "Q", "u", "a", "n", "t", "i", "t", "y", " ">>, v |-> LIMITED_QUANTITY],
    [k |-> <<"n", "a", "t", "u", "r", "e", "O", "f", "C", "a", "r", "g", "o">>, v |-> NATURE_OF_CARGO],
    [k |-> <<"M", "F", "A", "G", " ", "N", "u", "m", "b", "e", "r">>, v |-> MFAG_NUMBER] >>

Add_a_Shipper == <<"A", "d", "d", " ", "a", " ", "S", "h", "i", "p", "p", "e", "r">>
Add_a_Consignee == <<"A", "d", "d", " ", "a", " ", "C", "o", "n", "s", "i", "g", "n", "e", "e">>
Add_a_POD == <<"A", "d", "d", " ", "a", " ", "P", "O", "D">>
Add_a_Vessel == <<"A", "d", "d", " ", "a", " ", "V", "e", "s", "s", "e", "l">>
Ext_docx == <<".", "d", "o", "c", "x">>
Ext_xlsx == <<".", "x", "l", "s", "x">>
Ext_xls == <<".", "x", "l", "s">>
Ext_xltx == <<".", "x", "l", "t", "x">>
Ext_xlsm == <<".", "x", "l", "s", "m">>
Ext_xltm == <<".", "x", "l", "t", "m">>
Filled_docx == <<"_", "f", "i", "l", "l", "e", "d", ".", "d", "o", "c", "x">>
\* a suffix that is not the one main() writes
Filled_xls == <<"_", "f", "i", "l", "l", "e", "d", ".", "x", "l", "s">>
Filled_xlsx == <<"_", "f", "i", "l", "l", "e", "d", ".", "x", "l", "s", "x">>
YES == <<"Y", "E", "S">>
NO == <<"N", "O">>
Dash == <<"-">>
SOLID == <<"S", "O", "L", "I", "D">>
LIQUID == <<"L", "I", "Q", "U", "I", "D">>
GAS == <<"G", "A", "S">>
UpperAlpha == <<"A", "B", "C", "D", "E", "F", "G", "H", "I", "J", "K", "L", "M", "N", "O", "P", "Q", "R", "S", "T", "U", "V", "W", "X", "Y", "Z">>
LowerAlpha == <<"a", "b", "c", "d", "e", "f", "g", "h", "i", "j", "k", "l", "m", "n", "o", "p", "q", "r", "s", "t", "u", "v", "w", "x", "y", "z">>

(***************************************************************************)
(* Python string and dict helpers                                          *)
(***************************************************************************)
IndexIn(alpha, ch) == CHOOSE i \in 1..Len(alpha) : alpha[i] = ch
IsIn(alpha, ch) == \E i \in 1..Len(alpha) : alpha[i] = ch

\* str.lower() and str.upper()
Lower(t) == [i \in 1..Len(t) |->
                IF IsIn(UpperAlpha, t[i]) THEN LowerAlpha[IndexIn(UpperAlpha, t[i])] ELSE t[i]]
Upper(t) == [i \in 1..Len(t) |->
                IF IsIn(LowerAlpha, t[i]) THEN UpperAlpha[IndexIn(LowerAlpha, t[i])] ELSE t[i]]

\* str.endswith(suffix)
EndsWith(t, suffix) ==
    Len(suffix) <= Len(t) /\ SubSeq(t, Len(t) - Len(suffix) + 1, Len(t)) = suffix

IsSpace(ch) == ch = " " \/ ch = "\n"

RECURSIVE LStrip(_)
LStrip(t) == IF t # <<>> /\ IsSpace(Head(t)) THEN LStrip(Tail(t)) ELSE t

RECURSIVE RStrip(_)
RStrip(t) == IF t # <<>> /\ IsSpace(t[Len(t)]) THEN RStrip(SubSeq(t, 1, Len(t) - 1)) ELSE t

\* str.strip()
Strip(t) == RStrip(LStrip(t))

\* os.path.splitext(name): the extension starts at the last dot, unless only
\* dots come before it
SplitExt(name) ==
    LET dots == { i \in 1..Len(name) : name[i] = "." }
        last == CHOOSE i \in dots : \A j \in dots : j <= i
    IN  IF dots = {} \/ (\A j \in 1..(last - 1) : name[j] = ".")
        THEN [root |-> name, ext |-> <<>>]
        ELSE [root |-> SubSeq(name, 1, last - 1), ext |-> SubSeq(name, last, Len(name))]

\* a dict is a sequence of [k, v] items in insertion order
HasItem(d, key) == \E i \in 1..Len(d) : d[i].k = key

\* d.get(key, default)
Get(d, key, default) ==
    IF HasItem(d, key) THEN d[CHOOSE i \in 1..Len(d) : d[i].k = key].v ELSE default

RECURSIVE Put(_, _, _)
\* d[key] = value: the value of an existing key is replaced in place
Put(d, key, value) ==
    IF d = <<>> THEN << [k |-> key, v |-> value] >>
    ELSE IF Head(d).k = key THEN << [k |-> key, v |-> value] >> \o Tail(d)
    ELSE << Head(d) >> \o Put(Tail(d), key, value)

RECURSIVE ConvertFrom(_, _)
ConvertFrom(orig_dict, i) ==
    IF i = 0 THEN <<>>
    ELSE Put(ConvertFrom(orig_dict, i - 1),
             Replace(Get(key_map, orig_dict[i].k, orig_dict[i].k), <<" ">>, <<"_">>),
             orig_dict[i].v)

\* the spaces of a key replaced before the rename table is consulted
convert_keys_replace_first(orig_dict) ==
    ConvertFrom([i \in 1..Len(orig_dict) |->
                    [k |-> Replace(orig_dict[i].k, <<" ">>, <<"_">>), v |-> orig_dict[i].v]],
                Len(orig_dict))

\* {key_map.get(k, k).replace(" ", "_"): v for k, v in orig_dict.items()}
convert_keys_to_template_style(orig_dict) == ConvertFrom(orig_dict, Len(orig_dict))

(***************************************************************************)
(* textwrap.wrap with the defaults of TextWrapper, for texts without tabs  *)
(* and hyphens: whitespace becomes spaces, the text is cut into chunks     *)
(* (runs of spaces, runs of other characters), and lines are filled chunk  *)
(* by chunk; a chunk longer than the width is broken.                      *)
(***************************************************************************)
\* _munge_whitespace: every whitespace character becomes a space
Munge(t) == [i \in 1..Len(t) |-> IF IsSpace(t[i]) THEN " " ELSE t[i]]

RECURSIVE RunEnd(_, _)
\* the last position of the run of like characters that starts at i
RunEnd(t, i) ==
    IF i < Len(t) /\ ((t[i + 1] = " ") <=> (t[i] = " ")) THEN RunEnd(t, i + 1) ELSE i

RECURSIVE SplitChunks(_, _)
\* _split: the chunks of t from position i on
SplitChunks(t, i) ==
    IF i > Len(t) THEN <<>>
    ELSE << SubSeq(t, i, RunEnd(t, i)) >> \o SplitChunks(t, RunEnd(t, i) + 1)

IsBlank(chunk) == \A i \in 1..Len(chunk) : chunk[i] = " "

RECURSIVE TakeChunks(_, _, _, _)
\* the inner loop of _wrap_chunks: chunks are moved to the line while they fit
TakeChunks(chunks, cur_line, cur_len, width) ==
    IF chunks # <<>> /\ cur_len + Len(Head(chunks)) <= width
    THEN TakeChunks(Tail(chunks), Append(cur_line, Head(chunks)),
                    cur_len + Len(Head(chunks)), width)
    ELSE [chunks |-> chunks, cur_line |-> cur_line, cur_len |-> cur_len]

\* _handle_long_word with break_long_words: the chunk is cut at the space left
HandleLongWord(st, width) ==
    IF st.chunks # <<>> /\ Len(Head(st.chunks)) > width
    THEN LET space_left == IF width < 1 THEN 1 ELSE width - st.cur_len
             chunk == Head(st.chunks)
         IN  [chunks |-> << SubSeq(chunk, space_left + 1, Len(chunk)) >> \o Tail(st.chunks),
              cur_line |-> Append(st.cur_line, SubSeq(chunk, 1, space_left)),
              cur_len |-> st.cur_len]
    ELSE st

RECURSIVE WrapChunks(_, _, _)
\* _wrap_chunks: the lines made of the chunks
WrapChunks(chunks, lines, width) ==
    IF chunks = <<>> THEN lines
    ELSE LET start == IF IsBlank(Head(chunks)) /\ lines # <<>> THEN Tail(chunks) ELSE chunks
             st == HandleLongWord(TakeChunks(start, <<>>, 0, width), width)
             cur_line == IF st.cur_line # <<>> /\ IsBlank(st.cur_line[Len(st.cur_line)])
                         THEN SubSeq(st.cur_line, 1, Len(st.cur_line) - 1)
                         ELSE st.cur_line
             rest == IF st.chunks # <<>> /\ Head(st.chunks) = <<>> THEN Tail(st.chunks)
                     ELSE st.chunks
         IN  WrapChunks(rest, IF cur_line # <<>> THEN Append(lines, Concat(cur_line)) ELSE lines,
                        width)

\* textwrap.wrap(text, width=width)
Wrap(text, width) == WrapChunks(SplitChunks(Munge(text), 1), <<>>, width)

RECURSIVE Join(_, _)
\* sep.join(lines)
Join(sep, lines) ==
    IF lines = <<>> THEN <<>>
    ELSE IF Len(lines) = 1 THEN Head(lines)
    ELSE Head(lines) \o sep \o Join(sep, Tail(lines))

format_address_by_chars(address, width) ==
    IF address = <<>> THEN <<>> ELSE Join(<<"\n">>, Wrap(address, width))

(***************************************************************************)
(* The reference data store (the master spreadsheet) and the templates     *)
(* folder                                                                  *)
(***************************************************************************)
Tables == {"cargo", "Equipment Type", "Shippers", "Consignees", "Ports", "Vessels"}

T20FT == <<"2", "0", "F", "T">>
ShipperName == <<"S", "1">>
ConsigneeName == <<"K", "1">>
PortName == <<"P", "1">>
VesselName == <<"V", "1">>
NewName == <<" ", "N", " ">>

\* one row of the cargo sheet: the name and the other columns
CargoRow == [name |-> <<"C", "G">>,
             details |-> << [k |-> <<"u", "n", "n", "o">>, v |-> <<"3", "2", "6", "5">>],
                            [k |-> <<"c", "l", "a", "s", "s">>, v |-> <<"8">>],
                            [k |-> <<"m", "a", "r", "i", "n", "e", "P", "o", "l", "l", "u", "t", "a", "n", "t">>,
                             v |-> <<"y", "e", "s">>],
                            [k |-> <<"L", "i", "m", "i", "t", "e", "d", " ", "Q", "u", "a", "n", "t", "i", "t", "y", " ">>,
                             v |-> <<"n", "o">>] >>]

ShipperRow(name) == [Shipper |-> name, ContactName |-> <<>>, ContactNumber |-> <<>>,
                     Shipper_Address |-> <<>>]

\* the sheets with their rows below the header (Equipment Type has no header)
SheetsWith(equipment, rows) ==
    [cargo |-> << CargoRow >>,
     equipment |-> equipment,
     shippers |-> IF rows THEN << [Shipper |-> ShipperName, ContactName |-> <<"A", "l">>,
                                   ContactNumber |-> <<"7">>,
                                   Shipper_Address |-> <<"1", " ", "Q", "u", "a", "y">>] >>
                  ELSE <<>>,
     consignees |-> IF rows THEN << [Consignee |-> ConsigneeName,
                                     Consignee_Address |-> <<"P", "i", "e", "r", "\n", "2">>] >>
                    ELSE <<>>,
     ports |-> IF rows THEN << [POL |-> <<"L", "1">>, POD |-> PortName] >> ELSE <<>>,
     vessels |-> IF rows THEN << VesselName >> ELSE <<>>]

InitialSheets == { SheetsWith(<< <<>>, T20FT >>, TRUE), SheetsWith(<<T20FT>>, FALSE),
                   SheetsWith(<<>>, TRUE) }

MimeDocx == "application/vnd.openxmlformats-officedocument.wordprocessingml.document"
MimeXlsx == "application/vnd.openxmlformats-officedocument.spreadsheetml.sheet"

\* the content of a Word template and of a workbook template
DocxContent == [fmt |-> "docx",
                doc |-> <<"U", "N", " ">> \o <<"{", "{", " ">> \o UNNO \o <<" ", "}", "}">>
                          \o <<"{", "{", " ">> \o BL_NO \o <<" ", "}", "}">>
                          \o <<"{", "{">> \o SHIPPER \o <<"}", "}">>,
                wb |-> <<>>]
XlsxContent == [fmt |-> "xlsx", doc |-> <<>>,
                wb |-> << StrCell(Token(SHIPPER) \o <<"/">> \o Token(VESSEL) \o Token(BL_NO),
                                  CenterAlignment),
                          StrCell(Token(QTY_EQUIPMENT) \o <<" ">> \o Token(QUANTITY),
                                  DefaultAlignment),
                          StrCell(Token(SHIPPER_ADDRESS), CenterAlignment),
                          OtherCell("n", 1, CenterAlignment) >>]

\* the files of the templates folder: name, MIME type, trashed, content
DriveFiles ==
    << [name |-> <<"D", "G", ".", "d", "o", "c", "x">>, mime |-> MimeDocx,
        trashed |-> FALSE, content |-> DocxContent],
       [name |-> <<"H", "Z", ".", "X", "L", "S", "X">>, mime |-> MimeXlsx,
        trashed |-> FALSE, content |-> XlsxContent],
       [name |-> <<"O", "L", ".", "x", "l", "s">>, mime |-> MimeXlsx,
        trashed |-> FALSE, content |-> XlsxContent],
       [name |-> <<"T", "P", ".", "x", "l", "t", "x">>, mime |-> MimeXlsx,
        trashed |-> FALSE, content |-> XlsxContent],
       [name |-> <<"F", "O", "R", "M">>, mime |-> MimeDocx,
        trashed |-> FALSE, content |-> DocxContent],
       [name |-> <<"B", "I", "N", ".", "x", "l", "s", "x">>, mime |-> MimeXlsx,
        trashed |-> TRUE, content |-> XlsxContent],
       [name |-> <<"N", "B", ".", "p", "d", "f">>, mime |-> "application/pdf",
        trashed |-> FALSE, content |-> [fmt |-> "pdf", doc |-> <<>>, wb |-> <<>>]],
       [name |-> <<"X", "L", ".", "x", "l", "s">>, mime |-> "application/vnd.ms-excel",
        trashed |-> FALSE, content |-> [fmt |-> "xls", doc |-> <<>>, wb |-> <<>>]] >>

\* list_folder_files(folder_id, mime_types): the files of the folder that are
\* not trashed and have one of the MIME types, in the order of the listing
list_folder_files(mime_types) ==
    SelectSeq(DriveFiles, LAMBDA f : ~f.trashed /\ f.mime \in mime_types)

\* the name of NamedTemporaryFile(suffix=suffix): a fresh name, then the suffix
TempName(id, suffix) == <<"t", "m", "p">> \o IntToText(id) \o suffix

\* download_file_to_temp(file_id, file_name) as the id-th temporary file
download_file_to_temp(f, id) ==
    [path |-> TempName(id, SplitExt(f.name).ext), content |-> f.content, made |-> "download"]

(***************************************************************************)
(* Loading the reference data                                              *)
(***************************************************************************)
TTL == 3600
SleepSeconds == 2

\* pd.DataFrame(): no columns, no rows
EmptyFrame == [columns |-> FALSE, rows |-> <<>>]

\* GoogleDriveSheets.download_spreadsheet_as_df: the rows under the header
\* (all rows of Equipment Type); the empty frame when the sheet has no
\* values, and also when the request raised (the error is displayed)
download_spreadsheet_as_df(sh, sheet_name, failed) ==
    IF sheet_name \in failed THEN EmptyFrame
    ELSE CASE sheet_name = "cargo" -> [columns |-> TRUE, rows |-> sh.cargo]
           [] sheet_name = "Equipment Type" ->
                 IF sh.equipment = <<>> THEN EmptyFrame
                 ELSE [columns |-> TRUE, rows |-> sh.equipment]
           [] sheet_name = "Shippers" -> [columns |-> TRUE, rows |-> sh.shippers]
           [] sheet_name = "Consignees" -> [columns |-> TRUE, rows |-> sh.consignees]
           [] sheet_name = "Ports" -> [columns |-> TRUE, rows |-> sh.ports]
           [] sheet_name = "Vessels" -> [columns |-> TRUE, rows |-> sh.vessels]

RECURSIVE DictFrom(_, _)
\* the dict of the first i of a sequence of (key, value) items, the last of
\* equal keys winning
DictFrom(items, i) ==
    IF i = 0 THEN <<>>
    ELSE Put(DictFrom(items, i - 1), items[i].k, items[i].v)

DictOf(items) == DictFrom(items, Len(items))

NoData == [cargo_data |-> <<>>, shippers |-> <<>>, shipper_contacts |-> <<>>,
           consignees |-> <<>>, consignee_addresses |-> <<>>, pol_ports |-> <<>>,
           pod_ports |-> <<>>, equipment_types |-> <<>>, vessels |-> <<>>]

\* the body of load_master_data_from_drive when the requests of the sheets in
\* failed raise: its return value, or raised (IndexError on the first column
\* of a frame without columns, KeyError on a missing column, ValueError of
\* to_dict(orient="index") on a shipper name that occurs twice)
load_master_data_from_drive(sh, failed) ==
    LET cargo_df == download_spreadsheet_as_df(sh, "cargo", failed)
        equipment_df == download_spreadsheet_as_df(sh, "Equipment Type", failed)
        shippers_df == download_spreadsheet_as_df(sh, "Shippers", failed)
        consignees_df == download_spreadsheet_as_df(sh, "Consignees", failed)
        ports_df == download_spreadsheet_as_df(sh, "Ports", failed)
        vessels_df == download_spreadsheet_as_df(sh, "Vessels", failed)
        raised == \/ ~equipment_df.columns
                  \/ ~shippers_df.columns
                  \/ \E i, j \in 1..Len(shippers_df.rows) :
                        i # j /\ shippers_df.rows[i].Shipper = shippers_df.rows[j].Shipper
                  \/ ~consignees_df.columns
    IN  IF raised THEN [raised |-> TRUE, value |-> NoData]
        ELSE [raised |-> FALSE,
              value |->
                [cargo_data |-> DictOf([i \in 1..Len(cargo_df.rows) |->
                                          [k |-> cargo_df.rows[i].name,
                                           v |-> cargo_df.rows[i].details]]),
                 shippers |-> [i \in 1..Len(shippers_df.rows) |-> shippers_df.rows[i].Shipper],
                 shipper_contacts |-> DictOf([i \in 1..Len(shippers_df.rows) |->
                                                [k |-> shippers_df.rows[i].Shipper,
                                                 v |-> shippers_df.rows[i]]]),
                 consignees |-> [i \in 1..Len(consignees_df.rows) |->
                                    consignees_df.rows[i].Consignee],
                 consignee_addresses |-> DictOf([i \in 1..Len(consignees_df.rows) |->
                                                   [k |-> consignees_df.rows[i].Consignee,
                                                    v |-> consignees_df.rows[i].Consignee_Address]]),
                 pol_ports |-> IF ports_df.columns
                               THEN [i \in 1..Len(ports_df.rows) |-> ports_df.rows[i].POL]
                               ELSE <<>>,
                 pod_ports |-> IF ports_df.columns
                               THEN [i \in 1..Len(ports_df.rows) |-> ports_df.rows[i].POD]
                               ELSE <<>>,
                 equipment_types |-> equipment_df.rows,
                 vessels |-> IF vessels_df.rows # <<>> THEN vessels_df.rows ELSE <<>>]]

\* st.cache_data(ttl=3600): an entry answers until it is ttl seconds old. The
\* key is made of service_account_info and spreadsheet_id, which never
\* change; _cache_buster is not part of it (a leading underscore keeps a
\* parameter out of the key)
CacheHit(c, now) == c.valid /\ now - c.at < TTL

NoCache == [valid |-> FALSE, at |-> 0, value |-> NoData]

\* a call of the cached load_master_data_from_drive at time now
CachedLoad(c, sh, failed, now) ==
    IF CacheHit(c, now)
    THEN [source |-> "cache", raised |-> FALSE, value |-> c.value, failed |-> {}, cache |-> c]
    ELSE LET r == load_master_data_from_drive(sh, failed)
         IN  [source |-> "store", raised |-> r.raised, value |-> r.value, failed |-> failed,
              cache |-> IF r.raised THEN c ELSE [valid |-> TRUE, at |-> now, value |-> r.value]]

(***************************************************************************)
(* Loading the templates                                                   *)
(***************************************************************************)
RECURSIVE DownloadAll(_, _, _, _)
\* the loop of load_templates_from_drive over the first n listed files, the
\* disk holding fs before it: the disk and the templates dict after it
DownloadAll(listed, n, fs, templates) ==
    IF n = 0 THEN [files |-> fs, templates |-> templates]
    ELSE LET before == DownloadAll(listed, n - 1, fs, templates)
             id == Len(before.files) + 1
         IN  [files |-> Append(before.files, download_file_to_temp(listed[n], id)),
              templates |-> Put(before.templates, SplitExt(listed[n].name).root, id)]

NoTemplates == [valid |-> FALSE, at |-> 0, templates |-> <<>>]

\* a call of the cached load_templates_from_drive at time now
load_templates_from_drive(tc, fs, now) ==
    IF tc.valid /\ now - tc.at < TTL
    THEN [tcache |-> tc, files |-> fs]
    ELSE LET listed == list_folder_files({MimeDocx, MimeXlsx})
             d == DownloadAll(listed, Len(listed), fs, <<>>)
         IN  [tcache |-> [valid |-> TRUE, at |-> now, templates |-> d.templates],
              files |-> d.files]

(***************************************************************************)
(* The form: one run of main() per user interaction                        *)
(***************************************************************************)
MaxAppends == 1     \* at most this many rows are appended to the sheets
MaxTicks == 1       \* the clock advances at most this many TTLs
MaxOutputs == 2     \* at most this many documents are generated
MaxFailing == 1     \* at most this many sheet requests fail in one load

\* the four select boxes that start with an "add" entry, in script order
Boxes == 1..4
Sentinel(b) == CASE b = 1 -> Add_a_Shipper [] b = 2 -> Add_a_Consignee
                 [] b = 3 -> Add_a_POD [] b = 4 -> Add_a_Vessel
BoxList(v, b) == CASE b = 1 -> v.shippers [] b = 2 -> v.consignees
                   [] b = 3 -> v.pod_ports [] b = 4 -> v.vessels

\* st.selectbox over [sentinel] + list: the entry picked (0 is the sentinel)
Selected(v, b, pick) ==
    IF pick = 0 \/ BoxList(v, b) = <<>> THEN Sentinel(b) ELSE BoxList(v, b)[pick]

InList(list, x) == \E i \in 1..Len(list) : list[i] = x

\* "if 'cache_buster' not in st.session_state" and the four flags
InitSession(s, now) ==
    IF s.started THEN s
    ELSE [started |-> TRUE, cache_buster |-> now, show |-> [b \in Boxes |-> FALSE]]

\* the show_..._form flags after the script has passed the first upto boxes
UpdateShow(show, v, sel, upto) ==
    [b \in Boxes |->
        IF b > upto THEN show[b]
        ELSE IF sel[b] = Sentinel(b) THEN TRUE
        ELSE IF InList(BoxList(v, b), sel[b]) THEN FALSE
        ELSE show[b]]

NoAppend == [table |-> "none", name |-> <<>>]

\* what a run leaves on the page
Outcome(kind) ==
    [kind |-> kind, file_name |-> <<>>, mime |-> "", path |-> 0, template |-> 0,
     inputs |-> <<>>, data |-> <<>>, source |-> "none", failed |-> {}, value |-> NoData,
     appended |-> NoAppend, after |-> NoAppend, box |-> 0, request |-> "none",
     sel |-> <<>>, key |-> 0]

FailSets == { f \in SUBSET Tables : Cardinality(f) <= MaxFailing }

\* the row appended by the "Add" button of box b for a new name
NewRow(b, name) ==
    CASE b = 1 -> ShipperRow(Strip(name))
      [] b = 2 -> [Consignee |-> Strip(name), Consignee_Address |-> <<>>]
      [] b = 3 -> [POL |-> <<>>, POD |-> Strip(name)]
      [] b = 4 -> Strip(name)

BoxTable(b) == CASE b = 1 -> "Shippers" [] b = 2 -> "Consignees"
                 [] b = 3 -> "Ports" [] b = 4 -> "Vessels"

SheetRows(sh, b) == CASE b = 1 -> sh.shippers [] b = 2 -> sh.consignees
                      [] b = 3 -> sh.ports [] b = 4 -> sh.vessels

\* GoogleDriveSheets.append_to_sheet when the request succeeds
append_to_sheet(sh, b, row) ==
    CASE b = 1 -> [sh EXCEPT !.shippers = Append(@, row)]
      [] b = 2 -> [sh EXCEPT !.consignees = Append(@, row)]
      [] b = 3 -> [sh EXCEPT !.ports = Append(@, row)]
      [] b = 4 -> [sh EXCEPT !.vessels = Append(@, row)]

\* an append whose error is not reported: the result is truthy either way
AppendUnreported(sh, b, row, ok) ==
    [result |-> TRUE, sheets |-> IF ok THEN append_to_sheet(sh, b, row) ELSE sh]

\* GoogleDriveSheets.append_to_sheet as main() sees it: the result of the
\* request, None (here FALSE) when the request raised, and the sheets after it
AppendRequest(sh, b, row, ok) ==
    [result |-> ok, sheets |-> IF ok THEN append_to_sheet(sh, b, row) ELSE sh]

\* load_master_data_from_drive.clear()
ClearCache(c) == NoCache

(***************************************************************************)
(* "Generate Document": the FieldMap and the fill                          *)
(***************************************************************************)
AddressWidth == 40
DefaultQuantity == 1

Field(key, val) == [key |-> key, val |-> val]

\* the test without the strip() calls
mandatory_fields_unstripped(outer_package, inner_package, gross_wt, net_wt, equipment_type) ==
    /\ outer_package # <<>>
    /\ inner_package # <<>>
    /\ gross_wt # <<>>
    /\ net_wt # <<>>
    /\ ~(equipment_type.kind = "s" /\ equipment_type.text = <<>>)

\* all([outer_package.strip(), inner_package.strip(), gross_wt.strip(),
\*      net_wt.strip(), equipment_type != ""])
mandatory_fields_filled(outer_package, inner_package, gross_wt, net_wt, equipment_type) ==
    /\ Strip(outer_package) # <<>>
    /\ Strip(inner_package) # <<>>
    /\ Strip(gross_wt) # <<>>
    /\ Strip(net_wt) # <<>>
    /\ ~(equipment_type.kind = "s" /\ equipment_type.text = <<>>)

\* st.selectbox(label, options): the entry picked, None when there is none
PickOf(options, i) == IF options = <<>> THEN NoneVal ELSE StrVal(options[i])

\* the default of a select box whose index comes from the cargo details
DefaultChoice(options, details, key, fallback) ==
    LET d == Upper(Get(details, key, <<>>))
    IN  IF InList(options, d) THEN d ELSE fallback

\* the dict "data" of main() for the values on the form: the text inputs keep
\* their defaults, texts holds the four mandatory inputs
FormData(v, sel, equipment_type, qty, texts) ==
    LET shipper == sel[1]
        contact == Get(v.shipper_contacts, shipper, ShipperRow(<<>>))
        consignee == sel[2]
        consignee_address == Get(v.consignee_addresses, consignee, <<>>)
        cargo == IF v.cargo_data = <<>> THEN NoneVal ELSE StrVal(v.cargo_data[1].k)
        details == IF v.cargo_data = <<>> THEN <<>>
                   ELSE convert_keys_to_template_style(v.cargo_data[1].v)
        combined_qty_equipment ==
            IF ~(equipment_type.kind = "s" /\ equipment_type.text = <<>>) /\ qty > 0
            THEN IntToText(qty) \o <<"x">> \o Str(equipment_type) ELSE <<>>
    IN  << Field(SHIPPER, StrVal(IF shipper # Add_a_Shipper THEN shipper ELSE <<>>)),
           Field(SHIPPER_CONTACT_NAME, StrVal(contact.ContactName)),
           Field(SHIPPER_CONTACT_NUMBER, StrVal(contact.ContactNumber)),
           Field(SHIPPER_ADDRESS,
                 StrVal(format_address_by_chars(contact.Shipper_Address, AddressWidth))),
           Field(CONSIGNEE, StrVal(IF consignee # Add_a_Consignee THEN consignee ELSE <<>>)),
           Field(CONSIGNEE_ADDRESS,
                 StrVal(format_address_by_chars(consignee_address, AddressWidth))),
           Field(POL, PickOf(v.pol_ports, 1)),
           Field(POD, StrVal(IF sel[3] # Add_a_POD THEN sel[3] ELSE <<>>)),
           Field(VESSEL, StrVal(IF sel[4] # Add_a_Vessel THEN sel[4] ELSE <<>>)),
           Field(CARGO, cargo),
           Field(TECHNICAL_NAME, StrVal(Get(details, TECHNICAL_NAME, <<>>))),
           Field(CLASS, StrVal(Get(details, CLASS, <<>>))),
           Field(UNNO, StrVal(Get(details, UNNO, <<>>))),
           Field(SUBRISK, StrVal(Get(details, SUBRISK, <<>>))),
           Field(PACKING_GROUP, StrVal(Get(details, PACKING_GROUP, <<>>))),
           Field(EMS, StrVal(Get(details, EMS, <<>>))),
           Field(FLASH_POINT, StrVal(Get(details, FLASH_POINT, <<>>))),
           Field(MARINE_POLLUTANT,
                 StrVal(DefaultChoice(<<YES, NO>>, details, MARINE_POLLUTANT, NO))),
           Field(LIMITED_QUANTITY,
                 StrVal(DefaultChoice(<<YES, NO, Dash>>, details, LIMITED_QUANTITY, Dash))),
           Field(NATURE_OF_CARGO,
                 StrVal(DefaultChoice(<<SOLID, LIQUID, GAS, Dash>>, details,
                                      NATURE_OF_CARGO, Dash))),
           Field(MFAG_NUMBER, StrVal(Get(details, MFAG_NUMBER, <<>>))),
           Field(OUTER_PACKAGE, StrVal(texts[1])),
           Field(INNER_PACKAGE, StrVal(texts[2])),
           Field(GROSS_WT, StrVal(texts[3])),
           Field(NET_WT, StrVal(texts[4])),
           Field(EQUIPMENT_TYPE, equipment_type),
           Field(QTY_EQUIPMENT, StrVal(combined_qty_equipment)),
           Field(QUANTITY, IntVal(qty)),
           Field(CONTAINER_NUMBER, StrVal(<<>>)),
           Field(SEAL_NUMBER, StrVal(<<>>)) >>

FieldOf(data, key) == data[CHOOSE n \in 1..Len(data) : data[n].key = key]

RECURSIVE RenderKeepUnknown(_, _, _)
\* a rendering that leaves {{ name }} as it is when data has no such key
RenderKeepUnknown(t, data, i) ==
    IF i > Len(t) THEN <<>>
    ELSE IF MatchAt(t, LB, i) /\ \E j \in (i + 2)..Len(t) : MatchAt(t, RB, j)
    THEN LET j == CHOOSE j \in (i + 2)..Len(t) :
                      /\ MatchAt(t, RB, j)
                      /\ \A k \in (i + 2)..(j - 1) : ~MatchAt(t, RB, k)
             name == Strip(SubSeq(t, i + 2, j - 1))
         IN  (IF \E n \in 1..Len(data) : data[n].key = name
              THEN Str(FieldOf(data, name).val) ELSE SubSeq(t, i, j + 1))
                 \o RenderKeepUnknown(t, data, j + 2)
    ELSE <<t[i]>> \o RenderKeepUnknown(t, data, i + 1)

RECURSIVE RenderFrom(_, _, _)
\* DocxTemplate.render(data) on the text of the document: each {{ name }} is
\* replaced by str of the value of name, by nothing when data has no such key
RenderFrom(t, data, i) ==
    IF i > Len(t) THEN <<>>
    ELSE IF MatchAt(t, LB, i) /\ \E j \in (i + 2)..Len(t) : MatchAt(t, RB, j)
    THEN LET j == CHOOSE j \in (i + 2)..Len(t) :
                      /\ MatchAt(t, RB, j)
                      /\ \A k \in (i + 2)..(j - 1) : ~MatchAt(t, RB, k)
             name == Strip(SubSeq(t, i + 2, j - 1))
         IN  (IF \E n \in 1..Len(data) : data[n].key = name
              THEN Str(FieldOf(data, name).val) ELSE <<>>)
                 \o RenderFrom(t, data, j + 2)
    ELSE <<t[i]>> \o RenderFrom(t, data, i + 1)

Render(doc, data) == RenderFrom(doc, data, 1)

\* selected_template_path.lower().endswith(".docx")
IsWordPath(path) == EndsWith(Lower(path), Ext_docx)

\* every path is taken for a workbook
IsExcelPathAny(path) == TRUE

\* selected_template_path.lower().endswith((".xlsx", ".xls", ".xltx"))
IsExcelPath(path) ==
    \E e \in {Ext_xlsx, Ext_xls, Ext_xltx} : EndsWith(Lower(path), e)

\* load_workbook(path): openpyxl refuses a file name whose extension is not one
\* of its formats before it opens the file
LoadsAsWorkbook(file) ==
    /\ Lower(SplitExt(file.path).ext) \in {Ext_xlsx, Ext_xlsm, Ext_xltx, Ext_xltm}
    /\ file.content.fmt = "xlsx"

\* the output written over the template
SavePathInPlace(fs, template) == template

\* tempfile.NamedTemporaryFile(delete=False, suffix=...): a new file
SavePath(fs, template) == Len(fs) + 1

\* the disk after file id is written with a content
WriteFile(fs, id, suffix, content) ==
    IF id = Len(fs) + 1
    THEN Append(fs, [path |-> TempName(id, suffix), content |-> content, made |-> "output"])
    ELSE [fs EXCEPT ![id].content = content]

NotWritten(fs) == [kind |-> "exception", files |-> fs, file_name |-> <<>>, mime |-> "", path |-> 0]

\* the branches of main() after the dict "data" is built: the template is
\* filled and offered for download, or the format is refused; an exception
\* of the libraries ends the run
GenerateFile(fs, template, template_name, data) ==
    LET file == fs[template]
        id == SavePath(fs, template)
    IN  IF IsWordPath(file.path)
        THEN IF file.content.fmt # "docx" THEN NotWritten(fs)
             ELSE [kind |-> "download",
                   files |-> WriteFile(fs, id, Ext_docx,
                                       [fmt |-> "docx", doc |-> Render(file.content.doc, data),
                                        wb |-> <<>>]),
                   file_name |-> template_name \o Filled_docx, mime |-> MimeDocx, path |-> id]
        ELSE IF IsExcelPath(file.path)
        THEN LET r == FillWorkbook(file.content.wb, data)
             IN  IF ~LoadsAsWorkbook(file) \/ r.status # "ok" THEN NotWritten(fs)
                 ELSE [kind |-> "download",
                       files |-> WriteFile(fs, id, Ext_xlsx,
                                           [fmt |-> "xlsx", doc |-> <<>>, wb |-> r.wb]),
                       file_name |-> template_name \o Filled_xlsx, mime |-> MimeXlsx,
                       path |-> id]
        ELSE [kind |-> "unsupported", files |-> fs, file_name |-> <<>>, mime |-> "", path |-> 0]

(***************************************************************************)
(* The runs of main()                                                      *)
(***************************************************************************)
\* the selections of the four boxes: every box on its "add" entry, or every
\* box on its first entry (the default when the list has entries)
Picks == { [b \in Boxes |-> p] : p \in {0, 1} }
DefaultPick == [b \in Boxes |-> 1]

Five == <<"5">>
AllGiven == <<Five, Five, Five, Five>>
\* the four mandatory text inputs: all given, one of them blank, one empty
MandatoryTexts ==
    { AllGiven, [AllGiven EXCEPT ![1] = <<>>] }
        \cup { [AllGiven EXCEPT ![n] = <<" ">>] : n \in 1..4 }

NumOutputs(fs) == Cardinality({ i \in 1..Len(fs) : fs[i].made = "output" })

\* the start of main(): session state, reference data, templates
Loaded(failed) == CachedLoad(cache, sheets, failed, clock)
Templates == load_templates_from_drive(tcache, files, clock)

\* the sets of requests that can fail in this run: none is made when the
\* cache answers
CanFail(fails) == IF CacheHit(cache, clock) THEN {{}} ELSE fails

\* every successful append is followed by time.sleep(2); Tick moves the clock
\* by a TTL
Appends == (clock % TTL) \div SleepSeconds

\* the names typed into an "add" form: blank, new, and one already in use
NewNames == { <<" ">>, NewName, ShipperName }

\* st.rerun() after a successful append: the script runs again at once
Rerunning == out.kind = "append_ok"

Page(kind, ld) ==
    [Outcome(kind) EXCEPT !.source = ld.source, !.failed = ld.failed, !.value = ld.value,
                          !.after = out.appended]

\* a run in which no button is pressed: the load raises, or no template is
\* selected (st.stop), or the whole form is drawn. In the run started by
\* st.rerun() the user has picked nothing: select boxes with a new key show
\* their default entry; with the key they had before (int(time.time()) gave
\* the same second) they show the default or the entries they held (kept)
RunScript(fails) ==
    \E failed \in CanFail(fails), tsel \in {0, 1}, pick \in Picks, kept \in BOOLEAN :
        LET ld == Loaded(failed)
            tl == Templates
            s0 == InitSession(session, clock)
            sel == IF kept THEN out.sel
                   ELSE [b \in Boxes |-> Selected(ld.value, b, pick[b])]
        IN  /\ kept => (Rerunning /\ s0.cache_buster = out.key /\ tsel = 1 /\ ~ld.raised)
            /\ Rerunning => pick = DefaultPick
            /\ cache' = ld.cache
            /\ IF ld.raised
               THEN /\ tsel = 0
                    /\ pick = DefaultPick
                    /\ session' = s0
                    /\ out' = Page("exception", ld)
                    /\ UNCHANGED <<tcache, files>>
               ELSE /\ tcache' = tl.tcache
                    /\ files' = tl.files
                    /\ IF tsel = 0
                       THEN /\ pick = DefaultPick
                            /\ session' = s0
                            /\ out' = Page("stopped", ld)
                       ELSE /\ session' = [s0 EXCEPT !.show = UpdateShow(@, ld.value, sel, 4)]
                            /\ out' = [Page("rendered", ld) EXCEPT !.template = tsel,
                                                                   !.sel = sel]
            /\ UNCHANGED <<sheets, clock>>
            /\ UNCHANGED fvars
            /\ UNCHANGED pvars

\* a run in which the "Add" button of box b is pressed, with the new name
\* typed in and the outcome of the append request
PressAddNamed(b, fails, names) ==
    \E failed \in CanFail(fails), pick \in Picks :
        LET tsel == 1
            ld == Loaded(failed)
            tl == Templates
            s0 == InitSession(session, clock)
            v == ld.value
            sel == [x \in Boxes |-> Selected(v, x, pick[x])]
        IN  /\ ~Rerunning
            /\ session.started /\ session.show[b]
            /\ ~ld.raised
            /\ UpdateShow(s0.show, v, sel, b)[b]
            /\ tcache' = tl.tcache
            /\ files' = tl.files
            /\ \E name \in names, appended \in BOOLEAN :
               LET r == AppendRequest(sheets, b, NewRow(b, name), appended)
                   request == IF Strip(name) = <<>> THEN "none"
                              ELSE IF appended THEN "ok" ELSE "failed"
               IN
               IF Strip(name) # <<>> /\ r.result
               THEN /\ Appends < MaxAppends
                    /\ sheets' = r.sheets
                    /\ cache' = ClearCache(ld.cache)
                    /\ session' = [s0 EXCEPT !.cache_buster = clock,
                                             !.show = [UpdateShow(s0.show, v, sel, b)
                                                          EXCEPT ![b] = FALSE]]
                    /\ out' = [Page("append_ok", ld) EXCEPT
                                  !.template = tsel, !.box = b, !.request = request,
                                  !.sel = sel, !.key = s0.cache_buster,
                                  !.appended = [table |-> BoxTable(b), name |-> Strip(name)]]
                    /\ clock' = clock + SleepSeconds
               ELSE /\ cache' = ld.cache
                    /\ session' = [s0 EXCEPT !.show = UpdateShow(@, v, sel, 4)]
                    /\ out' = [Page(IF Strip(name) # <<>> THEN "append_failed"
                                    ELSE "name_required", ld) EXCEPT
                                  !.template = tsel, !.box = b, !.request = request,
                                  !.sel = sel]
                    /\ UNCHANGED <<sheets, clock>>
            /\ UNCHANGED fvars
            /\ UNCHANGED pvars

PressAdd(b, fails) == PressAddNamed(b, fails, NewNames)

\* a run in which "Generate Document" is pressed
PressGenerate(fails) ==
    \E failed \in CanFail(fails), tsel \in 1..Len(DriveFiles), texts \in MandatoryTexts,
       eq \in 1..2 :
        LET ld == Loaded(failed)
            tl == Templates
            s0 == InitSession(session, clock)
            v == ld.value
            sel == [b \in Boxes |-> Selected(v, b, DefaultPick[b])]
            equipment_type == PickOf(v.equipment_types, eq)
            data == FormData(v, sel, equipment_type, DefaultQuantity, texts)
            template == tl.tcache.templates[tsel]
            g == GenerateFile(tl.files, template.v, template.k, data)
            inputs == [texts |-> texts, equipment_type |-> equipment_type]
        IN  /\ ~Rerunning
            /\ ~ld.raised
            /\ tsel <= Len(tl.tcache.templates)
            /\ eq <= Len(v.equipment_types)
            /\ cache' = ld.cache
            /\ tcache' = tl.tcache
            /\ session' = [s0 EXCEPT !.show = UpdateShow(@, v, sel, 4)]
            /\ IF ~mandatory_fields_filled(texts[1], texts[2], texts[3], texts[4],
                                           equipment_type)
               THEN /\ files' = tl.files
                    /\ out' = [Page("missing_mandatory", ld) EXCEPT
                                  !.template = tsel, !.inputs = inputs]
               ELSE /\ g.path # 0 => NumOutputs(files) < MaxOutputs
                    /\ files' = g.files
                    /\ out' = [Page(g.kind, ld) EXCEPT
                                  !.template = tsel, !.inputs = inputs, !.data = data,
                                  !.file_name = g.file_name, !.mime = g.mime,
                                  !.path = g.path]
            /\ UNCHANGED <<sheets, clock>>
            /\ UNCHANGED fvars
            /\ UNCHANGED pvars

Rerun == RunScript(FailSets)
AddShipper == PressAdd(1, FailSets)
AddConsignee == PressAdd(2, FailSets)
AddPOD == PressAdd(3, FailSets)
AddVessel == PressAdd(4, FailSets)
GenerateDocument == PressGenerate(FailSets)

\* time passes while something is cached
Tick ==
    /\ ~Rerunning
    /\ cache.valid \/ tcache.valid
    /\ clock \div TTL < MaxTicks
    /\ clock' = clock + TTL
    /\ UNCHANGED <<sheets, cache, tcache, files, session, out>>
    /\ UNCHANGED fvars
    /\ UNCHANGED pvars

Init ==
    /\ fwb = <<>> /\ fdata = <<>> /\ fout = NotRun
    /\ sheets \in InitialSheets
    /\ clock = 0
    /\ cache = NoCache
    /\ tcache = NoTemplates
    /\ files = <<>>
    /\ session = [started |-> FALSE, cache_buster |-> 0, show |-> [b \in Boxes |-> FALSE]]
    /\ out = Outcome("none")
    /\ call = NoCall

Next ==
    \/ Rerun
    \/ AddShipper
    \/ AddConsignee
    \/ AddPOD
    \/ AddVessel
    \/ GenerateDocument
    \/ Tick

Spec == Init /\ [][Next]_vars

\* the sessions in which every request of the sheets succeeds and documents
\* are generated
RerunLoaded == RunScript({{}})
GenerateLoaded == PressGenerate({{}})

DocNext ==
    \/ RerunLoaded
    \/ GenerateLoaded

DocSpec == Init /\ [][DocNext]_vars

\* the sessions in which the reference data is read and extended
DataNext ==
    \/ Rerun
    \/ AddShipper
    \/ AddConsignee
    \/ AddPOD
    \/ AddVessel
    \/ Tick

DataSpec == Init /\ [][DataNext]_vars

\* the "Add" button of any of the four boxes, every fetch of the load answered
AddLoaded == \E b \in Boxes : PressAdd(b, {{}})

\* the sessions in which rows are added while the store answers every fetch
AppendNext ==
    \/ RerunLoaded
    \/ AddLoaded
    \/ Tick

AppendSpec == Init /\ [][AppendNext]_vars

\* a second passes between two runs (the appends move the clock by the two
\* seconds of their sleep, so the clock is odd from then on)
Second ==
    /\ ~Rerunning
    /\ clock % SleepSeconds = 0
    /\ clock' = clock + 1
    /\ UNCHANGED <<sheets, cache, tcache, files, session, out>>
    /\ UNCHANGED fvars
    /\ UNCHANGED pvars

\* the names typed into the "add" form of box b: blank, new, and the text of
\* the first entry of the box
FlagNames(b) == { <<" ">>, NewName, Sentinel(b) }

AddNamed == \E b \in Boxes : PressAddNamed(b, {{}}, FlagNames(b))

\* the sessions in which the "add" forms open and close
FlagNext ==
    \/ RerunLoaded
    \/ AddNamed
    \/ Second

FlagSpec == Init /\ [][FlagNext]_vars


(***************************************************************************)
(* Properties of the generated documents                                   *)
(***************************************************************************)
\* the listing of the templates folder, in the order of the templates dict
Listed == list_folder_files({MimeDocx, MimeXlsx})

\* the Drive file that the i-th file of the disk, a download, is a copy of
DriveCopy(i) ==
    LET k == Cardinality({ j \in 1..i : files[j].made = "download" })
    IN  Listed[((k - 1) % Len(Listed)) + 1]

\* the document made of an unfilled template and a FieldMap
Filled(content, data) ==
    IF content.fmt = "docx"
    THEN [fmt |-> "docx", doc |-> Render(content.doc, data), wb |-> <<>>]
    ELSE [fmt |-> "xlsx", doc |-> <<>>, wb |-> FillWorkbook(content.wb, data).wb]

\* C5: for both formats, every template file on the disk keeps the content
\* it was downloaded with, whatever fills have run; the output of a fill is a
\* file created by that fill, distinct from the template path, and its
\* content is the fill of the unfilled template.
C5_TemplateNeverModified ==
    /\ \A i \in 1..Len(files) :
          files[i].made = "download" => files[i].content = DriveCopy(i).content
    /\ out.kind = "download" =>
          /\ out.path = Len(files)
          /\ files[out.path].made = "output"
          /\ out.path # tcache.templates[out.template].v
          /\ files[out.path].content = Filled(Listed[out.template].content, out.data)

\* the same workbook template has been filled twice, with equal outputs
C5_Witness ==
    /\ out.kind = "download"
    /\ \E i \in 1..Len(files) :
          /\ i # out.path
          /\ files[i].made = "output"
          /\ files[i].content.fmt = "xlsx"
          /\ files[i].content = files[out.path].content

SupportedExtensions == {Ext_docx, Ext_xlsx, Ext_xls, Ext_xltx}
HasSupportedExtension(path) == \E e \in SupportedExtensions : EndsWith(Lower(path), e)

\* the run pressed "Generate Document" and passed the mandatory check
Filling(o) == o.kind \in {"download", "unsupported"} \/ (o.kind = "exception" /\ o.template # 0)

\* C6: a fill requested on a template whose path ends in none of .docx,
\* .xlsx, .xls, .xltx (case-insensitively) ends as an unsupported-format
\* error: no output file is written and no file name, MIME type or path is
\* offered for download.
C6_UnsupportedRefused ==
    [][ (/\ Filling(out')
         /\ ~HasSupportedExtension(files'[tcache'.templates[out'.template].v].path))
        => /\ out'.kind = "unsupported"
           /\ out'.path = 0
           /\ out'.file_name = <<>>
           /\ out'.mime = ""
           /\ NumOutputs(files') = NumOutputs(files) ]_vars

\* the template without an extension has been refused
C6_Witness ==
    /\ out.kind = "unsupported"
    /\ Listed[out.template].name = <<"F", "O", "R", "M">>
    /\ ~HasSupportedExtension(files[tcache.templates[out.template].v].path)

FilledSuffix == <<"_", "f", "i", "l", "l", "e", "d">>

\* C7 as stated: the output file name of a successful fill is the display
\* name, "_filled" and the original extension of the template, with the MIME
\* type of the format.
C7_OriginalExtensionKept ==
    out.kind = "download" =>
        LET name == Listed[out.template].name
        IN  /\ out.file_name = SplitExt(name).root \o FilledSuffix \o SplitExt(name).ext
            /\ out.mime = IF Lower(SplitExt(name).ext) = Ext_docx THEN MimeDocx ELSE MimeXlsx

\* C7: the output file name of a successful fill is the display name,
\* "_filled" and ".docx" for a Word template, ".xlsx" for every workbook
\* template whatever its extension; the MIME type is the Word type for the
\* first and the spreadsheet type for the second; a .xls template never
\* fills successfully.
C7_ExtensionByFormat ==
    out.kind = "download" =>
        LET name == Listed[out.template].name
            word == Lower(SplitExt(name).ext) = Ext_docx
        IN  /\ out.file_name = SplitExt(name).root \o FilledSuffix
                                   \o (IF word THEN Ext_docx ELSE Ext_xlsx)
            /\ out.mime = (IF word THEN MimeDocx ELSE MimeXlsx)
            /\ Lower(SplitExt(name).ext) # Ext_xls

\* a .xltx template has been filled
C7_Witness ==
    /\ out.kind = "download"
    /\ SplitExt(Listed[out.template].name).ext = Ext_xltx

IsBlankInput(t) == \A i \in 1..Len(t) : IsSpace(t[i])
SomeMissing(inputs) ==
    \/ \E n \in 1..4 : IsBlankInput(inputs.texts[n])
    \/ inputs.equipment_type = StrVal(<<>>)

\* the run pressed "Generate Document"
Pressed(o) == o.inputs # <<>>

\* C8: when "Generate Document" is pressed with one of outer package, inner
\* package, gross weight, net weight blank after trimming, or with the empty
\* equipment type, the missing-mandatory error is shown and no fill runs: no
\* output is written or offered. The equipment list is never empty when the
\* form is drawn, so a selection is never absent.
C8_MandatoryBeforeFill ==
    [][ /\ (Pressed(out') /\ SomeMissing(out'.inputs))
            => /\ out'.kind = "missing_mandatory"
               /\ out'.path = 0
               /\ out'.data = <<>>
               /\ NumOutputs(files') = NumOutputs(files)
        /\ Pressed(out') => out'.inputs.equipment_type # NoneVal
        /\ out'.template # 0 => out'.value.equipment_types # <<>> ]_vars

\* the net weight was a blank and the error was shown
C8_Witness ==
    /\ out.kind = "missing_mandatory"
    /\ out.inputs.texts[4] = <<" ">>
    /\ out.inputs.equipment_type = StrVal(T20FT)

(***************************************************************************)
(* Properties of the reference data                                        *)
(***************************************************************************)
\* the list of the load result that shows the rows of a sheet
HasRow(value, a) ==
    CASE a.table = "Shippers" -> InList(value.shippers, a.name)
      [] a.table = "Consignees" -> InList(value.consignees, a.name)
      [] a.table = "Ports" -> InList(value.pod_ports, a.name)
      [] a.table = "Vessels" -> InList(value.vessels, a.name)

\* C9 as stated: the load of the run that follows a successful append is
\* answered by the store, not by the cache, and its result contains the
\* appended row.
C9_AppendedRowInNextLoad ==
    out.after # NoAppend =>
        /\ out.source = "store"
        /\ out.kind # "exception"
        /\ HasRow(out.value, out.after)

\* C10 as stated: a load in which the fetch of a sheet failed ends as an
\* error, never as a result that the run goes on with.
C10_FailedFetchSurfaces ==
    out.failed # {} => out.kind = "exception"


\* C11: a failed append ends as the append error and changes nothing else:
\* no row is written, the cached reference data stays as the load of this run
\* left it, the cache buster keeps its value, the form of the box stays open,
\* no success is shown, no rerun or sleep follows, and the button can be
\* pressed again (every step but the passing of time is a run of main()).
C11_FailedAppendChangesNothing ==
    [][ (out'.request = "failed" /\ ~Tick)
        => /\ out'.kind = "append_failed"
           /\ sheets' = sheets
           /\ cache'.valid
           /\ CacheHit(cache, clock) => cache' = cache
           /\ session'.cache_buster = session.cache_buster
           /\ session'.show[out'.box]
           /\ clock' = clock
           /\ out'.appended = NoAppend
           /\ out'.kind # "append_ok" ]_vars

\* an append failed while the reference data was cached
C11_Witness ==
    /\ out.request = "failed"
    /\ out.kind = "append_failed"
    /\ out.source = "cache"
    /\ cache.valid
    /\ session.show[out.box]


(***************************************************************************)
(* Calls of convert_keys_to_template_style                                 *)
(***************************************************************************)
MaxEntries == 2     \* a mapping given to convert_keys_to_template_style has at most this many keys

Limited_Quantity == <<"L", "i", "m", "i", "t", "e", "d", " ", "Q", "u", "a", "n", "t", "i", "t", "y">>

\* the keys of the mappings: table keys, near misses, keys with spaces,
\* keys that are already in template style
SampleKeys ==
    { <<"u", "n", "n", "o">>, UNNO, Limited_Quantity \o <<" ">>, Limited_Quantity,
      <<"M", "F", "A", "G", " ", "N", "u", "m", "b", "e", "r">>, MFAG_NUMBER,
      <<"a", " ", "b">>, <<"a", "_", "b">> }
SampleValues == { <<"1">>, <<"x", " ", "y">> }

\* the dicts of at most MaxEntries entries: no key occurs twice
Mappings ==
    UNION { { d \in [1..n -> [k : SampleKeys, v : SampleValues]] :
                \A i, j \in 1..n : i # j => d[i].k # d[j].k } : n \in 0..MaxEntries }

KeysInit ==
    /\ fwb = <<>> /\ fdata = <<>> /\ fout = NotRun
    /\ NoSession
    /\ call \in { [NoCall EXCEPT !.step = "given", !.arg = d] : d \in Mappings }

\* convert_keys_to_template_style(orig_dict)
convert_keys ==
    /\ call.step = "given"
    /\ call' = [call EXCEPT !.step = "converted",
                            !.ret = convert_keys_to_template_style(call.arg)]
    /\ UNCHANGED <<fvars, avars>>

\* convert_keys_to_template_style of the result of the first call
convert_keys_again ==
    /\ call.step = "converted"
    /\ call' = [call EXCEPT !.step = "converted_again",
                            !.again = convert_keys_to_template_style(call.ret)]
    /\ UNCHANGED <<fvars, avars>>

KeysNext ==
    \/ convert_keys
    \/ convert_keys_again

KeysSpec == KeysInit /\ [][KeysNext]_vars

\* a key in template style: no space in it, and not a key of the rename table
IsCanonical(k) == (\A i \in 1..Len(k) : k[i] # " ") /\ ~HasItem(key_map, k)

\* C12: convert_keys_to_template_style applied to its own result returns
\* that result; a mapping whose keys are all in template style is returned
\* as it is.
C12_ConvertIdempotent ==
    /\ call.step = "converted_again" => call.again = call.ret
    /\ (/\ call.step \in {"converted", "converted_again"}
        /\ \A i \in 1..Len(call.arg) : IsCanonical(call.arg[i].k))
       => call.ret = call.arg
    /\ call.step \in {"converted", "converted_again"}
       => \A i \in 1..Len(call.ret) : IsCanonical(call.ret[i].k)

\* a mapping with a table key and a key with a space has been converted twice
C12_Witness ==
    /\ call.step = "converted_again"
    /\ Len(call.arg) = 2
    /\ call.arg[1].k = <<"u", "n", "n", "o">>
    /\ call.arg[2].k = <<"a", " ", "b">>
    /\ call.ret # call.arg
    /\ call.again = call.ret


\* k with every space replaced by an underscore
Underscored(k) == [i \in 1..Len(k) |-> IF k[i] = " " THEN "_" ELSE k[i]]

\* the key in template style: the target of the rename table for a key of
\* the table, the key with underscores for spaces otherwise
Canon(k) ==
    IF \E i \in 1..Len(key_map) : key_map[i].k = k
    THEN Underscored(key_map[CHOOSE i \in 1..Len(key_map) : key_map[i].k = k].v)
    ELSE Underscored(k)

\* the last entry of d whose key in template style is key
LastOf(d, key) == CHOOSE i \in 1..Len(d) :
    /\ Canon(d[i].k) = key
    /\ \A j \in (i + 1)..Len(d) : Canon(d[j].k) # key

Converted(arg, ret) ==
    /\ { ret[j].k : j \in 1..Len(ret) } = { Canon(arg[i].k) : i \in 1..Len(arg) }
    /\ \A i, j \in 1..Len(ret) : i # j => ret[i].k # ret[j].k
    /\ \A j \in 1..Len(ret) : ret[j].v = arg[LastOf(arg, ret[j].k)].v
    /\ (\A i, j \in 1..Len(arg) : i # j => Canon(arg[i].k) # Canon(arg[j].k))
       => ret = [i \in 1..Len(arg) |-> [k |-> Canon(arg[i].k), v |-> arg[i].v]]

\* C13 (as stated): every entry (k, v) of the input is an entry
\* (canon(k), v) of the result.
C13_EachEntryKept ==
    call.step = "converted"
    => \A i \in 1..Len(call.arg) : \E j \in 1..Len(call.ret) :
           call.ret[j] = [k |-> Canon(call.arg[i].k), v |-> call.arg[i].v]

\* C13: the keys of the result are the keys of the input in template style,
\* each once; a key of the result has the value of the last entry of the
\* input with that key in template style, so that when no two keys of the
\* input agree in template style the result is the input entry by entry with
\* the keys renamed and the values as they were; the key with the trailing
\* space is renamed by the table and the same name without it is not; the
\* input is the same mapping after the call.
C13_EntryWiseLastWins ==
    [][ convert_keys
        => /\ call'.arg = call.arg
           /\ Converted(call.arg, call'.ret)
           /\ Canon(Limited_Quantity \o <<" ">>) = LIMITED_QUANTITY
           /\ Canon(Limited_Quantity) = Underscored(Limited_Quantity)
           /\ Canon(Limited_Quantity) # LIMITED_QUANTITY ]_vars

\* the name with the trailing space and the name without it were converted
C13_Witness ==
    /\ call.step = "converted"
    /\ Len(call.arg) = 2
    /\ call.arg[1].k = Limited_Quantity \o <<" ">>
    /\ call.arg[2].k = Limited_Quantity
    /\ call.ret = << [k |-> LIMITED_QUANTITY, v |-> call.arg[1].v],
                     [k |-> Underscored(Limited_Quantity), v |-> call.arg[2].v] >>


(***************************************************************************)
(* format_address_by_chars on its own: an address and a width are given,   *)
(* the function is called once                                             *)
(***************************************************************************)
MaxAddress == 4     \* an address has at most this many characters
MaxWidth == 3       \* the width is between 1 and this

AddressChars == {"a", "b", " ", "\n"}
Addresses == UNION { [1..n -> AddressChars] : n \in 0..MaxAddress }

WrapInit ==
    /\ fwb = <<>> /\ fdata = <<>> /\ fout = NotRun
    /\ NoSession
    /\ call \in { [NoCall EXCEPT !.step = "address", !.arg = a, !.width = w] :
                    a \in Addresses, w \in 1..MaxWidth }

\* format_address_by_chars(address, width)
format_address ==
    /\ call.step = "address"
    /\ call' = [call EXCEPT !.step = "wrapped",
                            !.ret = format_address_by_chars(call.arg, call.width)]
    /\ UNCHANGED <<fvars, avars>>

WrapNext == format_address

WrapSpec == WrapInit /\ [][WrapNext]_vars

RECURSIVE SplitOn(_, _, _)
\* the pieces of t between the characters of seps, empty pieces included;
\* cur is the piece being read
SplitOn(t, seps, cur) ==
    IF t = <<>> THEN << cur >>
    ELSE IF Head(t) \in seps THEN << cur >> \o SplitOn(Tail(t), seps, <<>>)
    ELSE SplitOn(Tail(t), seps, Append(cur, Head(t)))

\* the words of t: the maximal runs without a space or a newline, in order
Words(t) == SelectSeq(SplitOn(t, {" ", "\n"}, <<>>), LAMBDA w : w # <<>>)

\* the lines of t
Lines(t) == SplitOn(t, {"\n"}, <<>>)

\* C14 (as stated): for a non-empty address, every word on a line of the
\* result is a whole word of the address, and a line is longer than the
\* width only when it is a single word longer than the width.
C14_NoWordSplit ==
    (call.step = "wrapped" /\ call.arg # <<>>)
    => \A i \in 1..Len(Lines(call.ret)) :
         LET line == Lines(call.ret)[i]
         IN  /\ \A j \in 1..Len(Words(line)) :
                   \E n \in 1..Len(Words(call.arg)) : Words(call.arg)[n] = Words(line)[j]
             /\ Len(line) <= call.width
                \/ (Words(line) = << line >> /\ Len(line) > call.width)

\* C15 (as stated): the words of the result are the words of the address,
\* in the same order.
C15_WordsPreserved ==
    call.step = "wrapped" => Words(call.ret) = Words(call.arg)


(***************************************************************************)
(* The Word fill on its own: DocxTemplate.render(data) on a document made  *)
(* of literal text and {{ KEY }} placeholders                              *)
(***************************************************************************)
MaxParts == 2       \* a Word template has at most this many parts

SpacedToken(key) == <<"{", "{", " ">> \o key \o <<" ", "}", "}">>

\* the parts of a Word template: literal text, placeholders written with
\* and without spaces inside the braces
DocParts ==
    { [kind |-> "text", key |-> <<>>, text |-> <<"U", "N", " ">>] }
        \cup { [kind |-> "token", key |-> k, text |-> SpacedToken(k)] :
                 k \in {QTY, BL_NO, QUANTITY, CARGO} }
        \cup { [kind |-> "token", key |-> QTY_EQUIPMENT, text |-> Token(QTY_EQUIPMENT)] }

DocTemplates == UNION { [1..n -> DocParts] : n \in 0..MaxParts }

\* the dicts given to render: strings, and a number or None at the end
RenderData ==
    { d \o e : d \in FieldMaps,
               e \in { <<>>, << Field(QUANTITY, IntVal(2)) >>, << Field(CARGO, NoneVal) >> } }

RenderInit ==
    /\ fwb = <<>> /\ fdata = <<>> /\ fout = NotRun
    /\ NoSession
    /\ call \in { [NoCall EXCEPT !.step = "template", !.arg = [parts |-> ps, data |-> d]] :
                    ps \in DocTemplates, d \in RenderData }

\* doc.render(data)
render ==
    /\ call.step = "template"
    /\ call' = [call EXCEPT
                   !.step = "rendered",
                   !.ret = Render(Concat([i \in 1..Len(call.arg.parts) |->
                                             call.arg.parts[i].text]),
                                  call.arg.data)]
    /\ UNCHANGED <<fvars, avars>>

RenderNext == render

RenderSpec == RenderInit /\ [][RenderNext]_vars

\* what a part of the template becomes
Merged(part, data) ==
    IF part.kind = "text" THEN part.text
    ELSE IF HasKey(data, part.key) THEN Str(FieldOf(data, part.key).val)
    ELSE <<>>

\* C16: the rendered document is the template with every {{ KEY }} replaced by
\* the string of the value of KEY when the dict has the key and by nothing
\* when it has not, every other text kept; when no value holds braces itself,
\* no "{{" and no "}}" is left in the document.
C16_WordFill ==
    call.step = "rendered"
    => /\ call.ret = Concat([i \in 1..Len(call.arg.parts) |->
                                Merged(call.arg.parts[i], call.arg.data)])
       /\ ValuesBraceFree(call.arg.data)
          => ~Contains(call.ret, LB) /\ ~Contains(call.ret, RB)

\* a placeholder of a key of the dict and a placeholder of an absent key
C16_Witness ==
    /\ call.step = "rendered"
    /\ Len(call.arg.parts) = 2
    /\ call.arg.parts[1].text = SpacedToken(QTY)
    /\ call.arg.parts[2].text = SpacedToken(BL_NO)
    /\ HasKey(call.arg.data, QTY) /\ ~HasKey(call.arg.data, BL_NO)
    /\ call.ret = <<"1">>


\* the catalog has an entry for the Drive file f: its display name, mapped to
\* a downloaded copy of the file
InCatalog(f) ==
    \E n \in 1..Len(tcache.templates) :
        /\ tcache.templates[n].k = SplitExt(f.name).root
        /\ files[tcache.templates[n].v].made = "download"
        /\ files[tcache.templates[n].v].content = f.content

\* C17 (as stated): once the templates are loaded, every file of the folder
\* that is not trashed and whose name ends in .docx, .xlsx, .xls or .xltx has
\* an entry in the catalog, from its display name to its downloaded copy, and
\* every entry of the catalog is a file with one of these extensions.
C17_CatalogByExtension ==
    tcache.valid
    => /\ \A i \in 1..Len(DriveFiles) :
             (~DriveFiles[i].trashed /\ HasSupportedExtension(DriveFiles[i].name))
                 => InCatalog(DriveFiles[i])
       /\ \A n \in 1..Len(tcache.templates) :
             HasSupportedExtension(files[tcache.templates[n].v].path)


\* C18 (as stated): in a cell made of literal text and complete {{KEY}}
\* tokens, whatever the values hold (a {{OTHER_KEY}} token included) and in
\* whatever order the fields are iterated, the filled cell is the original
\* text read once, with each original token of a FieldMap key replaced by
\* that key's value.
C18_SinglePass ==
    fout.status = "ok" =>
        \A i \in 1..Len(fwb) :
            (fwb[i].kind = "s" /\ WellFormed(fwb[i].text))
                => fout.wb[i].text = TokenFill(fwb[i].text, fdata)


(***************************************************************************)
(* The dict "data" on its own: the reference data of a load, a selection   *)
(* in each of the four boxes, and the dict built when "Generate Document"  *)
(* is pressed                                                              *)
(***************************************************************************)
\* the sheets with rows, and the same with a shipper and a consignee named
\* like the first entry of their boxes (the "add" forms take any name)
FormSheets ==
    { SheetsWith(<<T20FT>>, TRUE), SheetsWith(<<T20FT>>, FALSE),
      [SheetsWith(<<T20FT>>, TRUE) EXCEPT
          !.shippers = << [Shipper |-> Add_a_Shipper, ContactName |-> <<"A", "l">>,
                           ContactNumber |-> <<"7">>,
                           Shipper_Address |-> <<"1", " ", "Q", "u", "a", "y">>] >>,
          !.consignees = << [Consignee |-> Add_a_Consignee,
                             Consignee_Address |-> <<"P", "i", "e", "r">>] >>] }

\* the reference data of the loads that return
FormValues ==
    UNION { { load_master_data_from_drive(sh, failed).value :
                failed \in { f \in FailSets : ~load_master_data_from_drive(sh, f).raised } } :
            sh \in FormSheets }

FormInit ==
    /\ fwb = <<>> /\ fdata = <<>> /\ fout = NotRun
    /\ NoSession
    /\ call \in { [NoCall EXCEPT !.step = "form", !.arg = [v |-> v, pick |-> p]] :
                    v \in FormValues, p \in [Boxes -> {0, 1}] }

\* data = {...} of main() for the entries picked in the four boxes
build_data ==
    /\ call.step = "form"
    /\ LET v == call.arg.v
           sel == [b \in Boxes |-> Selected(v, b, call.arg.pick[b])]
       IN  call' = [call EXCEPT
                       !.step = "data",
                       !.again = sel,
                       !.ret = FormData(v, sel, PickOf(v.equipment_types, 1),
                                        DefaultQuantity, AllGiven)]
    /\ UNCHANGED <<fvars, avars>>

FormNext == build_data

FormSpec == FormInit /\ [][FormNext]_vars

BoxKey(b) == CASE b = 1 -> SHIPPER [] b = 2 -> CONSIGNEE [] b = 3 -> POD [] b = 4 -> VESSEL

Empty(val) == val = StrVal(<<>>)

\* C19 (as stated): in the dict built for the fill, the values of SHIPPER,
\* CONSIGNEE, POD and VESSEL are never the first entry ("Add a ...") of their
\* box; when that entry is the selection of a box the value is the empty
\* string, and the shipper contact name, contact number and address, and the
\* consignee address, are empty.
C19_SentinelNeverFilled ==
    call.step = "data"
    => /\ \A b \in Boxes :
             /\ FieldOf(call.ret, BoxKey(b)).val # StrVal(Sentinel(b))
             /\ call.again[b] = Sentinel(b) => Empty(FieldOf(call.ret, BoxKey(b)).val)
       /\ call.again[1] = Sentinel(1)
          => /\ Empty(FieldOf(call.ret, SHIPPER_CONTACT_NAME).val)
             /\ Empty(FieldOf(call.ret, SHIPPER_CONTACT_NUMBER).val)
             /\ Empty(FieldOf(call.ret, SHIPPER_ADDRESS).val)
       /\ call.again[2] = Sentinel(2)
          => Empty(FieldOf(call.ret, CONSIGNEE_ADDRESS).val)


\* C20 (as stated): after a run whose load had a failed fetch, the cache
\* holds no entry that answers the next load: that load goes to the store.
C20_FailedLoadNotCached ==
    out.failed # {} => ~CacheHit(cache, clock)


\* the run drew the four boxes
Drawn(o) == o.kind \in {"rendered", "name_required", "append_failed"}

\* the entries the boxes show by default: the first entry of the list, the
\* "add" entry when the list is empty
DefaultSel(v) == [b \in Boxes |-> Selected(v, b, 1)]

\* the flag of every box follows the entry selected in it
FlagsFollow(o, s) ==
    \A b \in Boxes :
        /\ o.sel[b] = Sentinel(b) => s.show[b]
        /\ InList(BoxList(o.value, b), o.sel[b]) => ~s.show[b]

\* after a successful append the boxes have a new key and show their default
\* entry, and the form of the box is closed when its list has an entry
FreshAfterAppend(before, o, s) ==
    /\ s.cache_buster # before.key
    /\ o.sel = DefaultSel(o.value)
    /\ BoxList(o.value, before.box) # <<>> => ~s.show[before.box]

\* C21 (as stated): in every run that draws the boxes, the flag of a box is
\* true when its "add" entry is selected and false when an entry of the list
\* is selected; a successful append sets the flag of its box to false and
\* was made for a name that is not blank; the run that follows a successful
\* append draws the boxes with a new key, on their default entries, and with
\* the form closed when the list is not empty; a blank name leaves the
\* sheets as they are.
C21_FormFlags ==
    [][ /\ Drawn(out') => FlagsFollow(out', session')
        /\ out'.kind = "append_ok"
           => /\ ~session'.show[out'.box]
              /\ Strip(out'.appended.name) # <<>>
        /\ (out.kind = "append_ok" /\ out'.kind = "rendered")
           => FreshAfterAppend(out, out', session')
        /\ out'.kind = "name_required" => sheets' = sheets ]_vars

====
